---- MODULE Spec2Model ----
(***************************************************************************)
(* cpureport (src/src/main.rs): two sampler threads poll an adb command    *)
(* until a shared deadline, push parsed samples into their own Vec<f64>,   *)
(* drop the first sample, and the main thread joins both, computes mean    *)
(* and max and writes two workbooks.                                       *)
(*                                                                         *)
(* Time is the SystemTime clock read in whole epoch seconds (as_secs()).   *)
(* A thread's steps take no time except the two places where the code      *)
(* waits: the external command (it returns within the second or takes     *)
(* MaxCmdDur seconds) and thread::sleep (exactly the poll interval).  The  *)
(* clock advances only when no thread has a step it can take now.          *)
(*                                                                         *)
(* f64 values are modelled exactly: a value is NaN or a rational num/den.  *)
(* Rounding is not modelled.  Text is a sequence of one-character strings. *)
(***************************************************************************)
EXTENDS Integers, Sequences, FiniteSets, TLC

\* ------------------------------------------------------------------ bounds
\* largest --time value tried (besides the option being absent)
MaxTime == 2
\* the clock stops advancing at this epoch second
MaxClock == 5
\* an external command returns within the second or takes this many seconds
MaxCmdDur == 2
\* latest epoch second at which the program is started
MaxStart == 1
\* once a Vec holds this many samples the device produces only outputs
\* without a sample (the package is gone from top / meminfo)
MaxSamples == 2
\* longest finished Series handed to the aggregation on its own
MaxSeriesLen == 3

\* ------------------------------------------------------- program constants
\* args.time.unwrap_or(60)
DefaultDuration == 60
\* thread::sleep(Duration::from_secs(1)) in get_cpu_data
CpuSleepSecs == 1
\* thread::sleep(Duration::from_secs(3)) in get_mem_data
MemSleepSecs == 3
\* KB -> MB divisor in main
KbPerMb == 1024
\* split_whitespace().nth(8): 0-based index of the CPU field
CpuFieldIndex == 8
\* collect::<Vec<&str>>().get(2): 0-based index of the PSS field
MemFieldIndex == 2

Kinds == {"cpu", "mem"}

\* ------------------------------------------------------------ f64 (exact)
NaN == [nan |-> TRUE, num |-> 0, den |-> 1]
F(n) == [nan |-> FALSE, num |-> n, den |-> 1]

Abs(n) == IF n < 0 THEN -n ELSE n

RECURSIVE Gcd(_, _)
Gcd(a, b) == IF b = 0 THEN a ELSE Gcd(b, a % b)

\* n/d in lowest terms, d > 0
Ratio(n, d) ==
    LET g == Gcd(Abs(n), d)
    IN  [nan |-> FALSE, num |-> n \div g, den |-> d \div g]

\* a + b
FAdd(a, b) ==
    IF a.nan \/ b.nan THEN NaN
    ELSE Ratio(a.num * b.den + b.num * a.den, a.den * b.den)

\* a / n for an integral divisor n >= 0.  0.0 / 0.0 is NaN; a non-zero
\* numerator never meets a zero divisor here (the divisor is a length or
\* 1024, and an empty Vec sums to 0.0).
FDiv(a, n) ==
    IF a.nan \/ n = 0 THEN NaN
    ELSE Ratio(a.num, a.den * n)

\* IEEE comparison a >= b: false when either side is NaN
FGe(a, b) == ~a.nan /\ ~b.nan /\ a.num * b.den >= b.num * a.den
\* IEEE comparison a == b: false when either side is NaN
FEq(a, b) == ~a.nan /\ ~b.nan /\ a.num * b.den = b.num * a.den

\* f64::total_cmp(a, b) /= Greater: a positive NaN is above every number
TotalLe(a, b) ==
    IF b.nan THEN TRUE
    ELSE IF a.nan THEN FALSE
    ELSE a.num * b.den <= b.num * a.den

\* iter().sum::<f64>()
RECURSIVE Sum(_)
Sum(s) == IF s = <<>> THEN F(0) ELSE FAdd(Head(s), Sum(Tail(s)))

\* iter().max_by(|a, b| a.total_cmp(b)): None on an empty Vec, else the
\* last greatest element
RECURSIVE MaxBy(_)
MaxBy(s) ==
    IF s = <<>> THEN [some |-> FALSE, val |-> F(0)]
    ELSE LET rest == MaxBy(Tail(s))
         IN  IF rest.some /\ TotalLe(Head(s), rest.val) THEN rest
             ELSE [some |-> TRUE, val |-> Head(s)]

\* Option::unwrap_or
UnwrapOr(opt, dflt) == IF opt.some THEN opt.val ELSE dflt

\* ------------------------------------------------------------------- text
NL == "\n"
IsSpace(c) == c \in {" ", "\t"}
Digits == <<"0", "1", "2", "3", "4", "5", "6", "7", "8", "9">>
IsDigit(c) == \E i \in 1..Len(Digits) : Digits[i] = c
DigitVal(c) == (CHOOSE i \in 1..Len(Digits) : Digits[i] = c) - 1

\* index of the first element of s satisfying Test, 0 when there is none
FirstIndex(s, Test(_)) ==
    IF \E i \in 1..Len(s) : Test(s[i])
    THEN CHOOSE i \in 1..Len(s) : Test(s[i]) /\ \A j \in 1..(i - 1) : ~Test(s[j])
    ELSE 0

\* str::lines(): the text cut at each newline; a trailing newline opens no
\* further line
RECURSIVE Lines(_)
Lines(text) ==
    IF text = <<>> THEN <<>>
    ELSE LET i == FirstIndex(text, LAMBDA c : c = NL)
         IN  IF i = 0 THEN <<text>>
             ELSE <<SubSeq(text, 1, i - 1)>> \o Lines(SubSeq(text, i + 1, Len(text)))

\* str::split_whitespace(): the maximal runs of non-whitespace
RECURSIVE SplitWhitespace(_)
SplitWhitespace(s) ==
    IF s = <<>> THEN <<>>
    ELSE IF IsSpace(s[1]) THEN SplitWhitespace(Tail(s))
    ELSE LET i == FirstIndex(s, IsSpace)
             n == IF i = 0 THEN Len(s) ELSE i - 1
         IN  <<SubSeq(s, 1, n)>> \o SplitWhitespace(SubSeq(s, n + 1, Len(s)))

\* str::contains(pat)
Contains(s, pat) ==
    \E i \in 1..(Len(s) - Len(pat) + 1) : SubSeq(s, i, i + Len(pat) - 1) = pat

\* str::replace(ch, ""): every occurrence of ch removed
Replace(s, ch) == SelectSeq(s, LAMBDA c : c /= ch)

\* Iterator::nth(i) / slice::get(i), 0-based
Nth(s, i) ==
    IF i + 1 <= Len(s) THEN [some |-> TRUE, val |-> s[i + 1]]
    ELSE [some |-> FALSE, val |-> <<>>]

RECURSIVE DecValue(_)
DecValue(s) ==
    IF s = <<>> THEN 0
    ELSE 10 * DecValue(SubSeq(s, 1, Len(s) - 1)) + DigitVal(s[Len(s)])

IsDigits(s) == s /= <<>> /\ \A i \in 1..Len(s) : IsDigit(s[i])

\* str::parse::<f64>() on the texts the device outputs below are made of:
\* an optionally signed run of digits, or NaN; anything else is an Err.
\* (The outputs hold no '.', exponent or "inf", which f64 also accepts.)
ParseF64(s) ==
    IF s = <<"N", "a", "N">> THEN [some |-> TRUE, val |-> NaN]
    ELSE IF IsDigits(s) THEN [some |-> TRUE, val |-> F(DecValue(s))]
    ELSE IF s /= <<>> /\ s[1] \in {"-", "+"} /\ IsDigits(Tail(s))
         THEN [some |-> TRUE,
               val |-> F(IF s[1] = "-" THEN 0 - DecValue(Tail(s)) ELSE DecValue(Tail(s)))]
    ELSE [some |-> FALSE, val |-> F(0)]

\* the "TOTAL PSS:" marker of get_mem_data
Marker == <<"T", "O", "T", "A", "L", " ", "P", "S", "S", ":">>

\* cpu_value without the replace("%", "")
cpu_value_keeping_percent(cpu_line) ==
    UnwrapOr(ParseF64(UnwrapOr(Nth(SplitWhitespace(cpu_line), CpuFieldIndex), <<"0">>)), F(0))

\* get_cpu_data: the f64 taken from the first line of top's output
cpu_value(cpu_line) ==
    UnwrapOr(
        ParseF64(Replace(UnwrapOr(Nth(SplitWhitespace(cpu_line), CpuFieldIndex), <<"0">>), "%")),
        F(0))

\* get_mem_data: the f64 taken from one "TOTAL PSS:" line
pss_memory(line) ==
    UnwrapOr(ParseF64(UnwrapOr(Nth(SplitWhitespace(line), MemFieldIndex), <<"0">>)), F(0))

\* the values one iteration of get_cpu_data pushes for a command output
CpuPushed(top_result) ==
    LET ls == Lines(top_result)
    IN  IF ls = <<>> THEN <<>> ELSE <<cpu_value(Head(ls))>>

\* only the first "TOTAL PSS:" line is read
MemPushedFirstOnly(mem_result) ==
    LET hit == SelectSeq(Lines(mem_result), LAMBDA line : Contains(line, Marker))
    IN  IF hit = <<>> THEN <<>> ELSE <<pss_memory(Head(hit))>>

\* the values one iteration of get_mem_data pushes for a command output
MemPushed(mem_result) ==
    LET hit == SelectSeq(Lines(mem_result), LAMBDA line : Contains(line, Marker))
    IN  [i \in 1..Len(hit) |-> pss_memory(hit[i])]

\* ------------------------------------------------------- device outputs
\* the eight columns of a top row before %CPU: PID USER PR NI VIRT RES SHR S
TopColumns ==
    <<"9", " ", "u", " ", "2", "0", " ", "0", " ", "1", "G", " ",
      "5", "M", " ", "3", "M", " ", "S", " ">>
TopRow(field) == TopColumns \o field \o <<" ", "1", NL>>
\* grep matched nothing
NoTopRow == <<>>
CpuOutputs ==
    { NoTopRow,
      TopRow(<<"7", "%">>) \o TopRow(<<"3">>),
      TopRow(<<"x">>),
      <<"9", " ", "u", NL>>,
      TopRow(<<"-", "2">>),
      TopRow(<<"N", "a", "N">>) }

MemHeader == <<"P", "s", "s", " ", "K", "B", NL>>
PssRow(field) == <<" ", " ">> \o Marker \o <<" ", " ">> \o field \o <<" ", "R", "S", "S", NL>>
\* "TOTAL PSS:" with nothing after it
BarePssRow == <<" ">> \o Marker \o <<NL>>
MemOutputs ==
    { MemHeader,
      MemHeader \o PssRow(<<"2", "0", "4", "8">>),
      MemHeader \o BarePssRow,
      PssRow(<<"4", "0", "9", "6">>) \o MemHeader \o PssRow(<<"x">>)
          \o PssRow(<<"2", "0", "4", "8">>) }

\* what the device can answer to a sampler whose Vec holds n samples
Outputs(k, n) ==
    IF k = "cpu"
    THEN (IF n < MaxSamples THEN CpuOutputs ELSE {NoTopRow})
    ELSE (IF n < MaxSamples THEN MemOutputs ELSE {MemHeader})

Pushed(k, out) == IF k = "cpu" THEN CpuPushed(out) ELSE MemPushed(out)

\* ------------------------------------------------------------------ state
VARIABLES
    args_time,     \* Args.time: None or Some(seconds)
    now,           \* SystemTime::now() in whole epoch seconds
    end_time,      \* main's end_time
    end_time_arg,  \* end_time_arg[k]: the end_time moved into k's closure
    main_pc,       \* where the main thread stands
    pc,            \* pc[k]: where sampler thread k stands
    wake,          \* wake[k]: when k's command returns or its sleep ends
    list,          \* list["cpu"] is cpu_list, list["mem"] is mem_list
    stdout,        \* stdout[k]: top_result / mem_result of k's latest command
    current_time,  \* get_current_time() taken after the joins
    stats,         \* stats[k]: the average and max main computes
    report,        \* report[k]: the workbook saved for k
    \* history, read by the properties only
    appended,      \* every value ever pushed to list[k], in push order
    invocations,   \* run_adb_command calls made by k
    removals,      \* remove(0) calls that returned, by k
    last_dur,      \* duration of k's latest command
    invoked_at,    \* the clock at k's latest run_adb_command call, or -1
    failed,        \* the samplers whose command could not be executed
    failed_at,     \* the clock at the first such failure, or -1
    end_time_sets  \* assignments made to end_time

vars ==
    <<args_time, now, end_time, end_time_arg, main_pc, pc, wake, list, stdout,
      current_time, stats, report, appended, invocations, removals, last_dur,
      invoked_at, failed, failed_at, end_time_sets>>

main_vars == <<end_time, main_pc, current_time, stats, report, end_time_sets>>
history == <<appended, invocations, removals, last_dur, invoked_at, failed, failed_at>>

cpu_list == list["cpu"]
mem_list == list["mem"]

NoStats == [average |-> F(0), max |-> F(0)]
NoReport ==
    [saved |-> FALSE, name |-> 0, rows |-> <<>>, max |-> F(0), average |-> F(0)]

\* the process is gone once main has returned or panicked
ProcessAlive == main_pc \notin {"exit_ok", "exit_fail"}
Terminated(k) == pc[k] \in {"finished", "panicked"}

\* a missing --time taken as 0 seconds
duration_without_default == UnwrapOr(args_time, 0)

\* args.time.unwrap_or(60)
duration == UnwrapOr(args_time, DefaultDuration)

\* a loop that does not sleep
NoSleepSecs(k) == 0
\* a loop that sleeps one second too long
LongSleepSecs(k) == (IF k = "cpu" THEN CpuSleepSecs ELSE MemSleepSecs) + 1

\* the poll interval of each loop
SleepSecs(k) == IF k = "cpu" THEN CpuSleepSecs ELSE MemSleepSecs

Init ==
    /\ args_time \in {[some |-> FALSE, val |-> 0]}
                     \cup {[some |-> TRUE, val |-> t] : t \in 0..MaxTime}
    /\ now \in 0..MaxStart
    /\ end_time = 0
    /\ end_time_arg = [k \in Kinds |-> 0]
    /\ main_pc = "start"
    /\ pc = [k \in Kinds |-> "unspawned"]
    /\ wake = [k \in Kinds |-> 0]
    /\ list = [k \in Kinds |-> <<>>]
    /\ stdout = [k \in Kinds |-> <<>>]
    /\ current_time = 0
    /\ stats = [k \in Kinds |-> NoStats]
    /\ report = [k \in Kinds |-> NoReport]
    /\ appended = [k \in Kinds |-> <<>>]
    /\ invocations = [k \in Kinds |-> 0]
    /\ removals = [k \in Kinds |-> 0]
    /\ last_dur = [k \in Kinds |-> 0]
    /\ invoked_at = [k \in Kinds |-> -1]
    /\ failed = {}
    /\ failed_at = -1
    /\ end_time_sets = 0

\* ------------------------------------------------------------ main thread
\* let end_time = now().as_secs() + duration
ComputeEndTime ==
    /\ main_pc = "start"
    /\ end_time' = now + duration
    /\ end_time_sets' = end_time_sets + 1
    /\ main_pc' = "spawn_cpu"
    /\ UNCHANGED <<args_time, end_time_arg, now, pc, wake, list, stdout, current_time, stats, report, history>>

\* thread::spawn(move || get_xxx_data(list, &device_cmd, end_time, &pkg))
Spawn(k, next) ==
    /\ pc[k] = "unspawned"
    /\ pc' = [pc EXCEPT ![k] = "loop"]
    /\ wake' = [wake EXCEPT ![k] = now]
    /\ end_time_arg' = [end_time_arg EXCEPT ![k] = end_time]
    /\ main_pc' = next
    /\ UNCHANGED <<args_time, now, end_time, list, stdout, current_time, stats, report,
                   end_time_sets, history>>

SpawnCpu == main_pc = "spawn_cpu" /\ Spawn("cpu", "spawn_mem")
SpawnMem == main_pc = "spawn_mem" /\ Spawn("mem", "join_cpu")

\* a join that does not wait for the thread
JoinReadyAtOnce(k) == pc[k] /= "unspawned"

\* the join returns once the thread is over
JoinReady(k) == Terminated(k)

\* a join whose result is dropped instead of unwrapped
JoinIgnoringPanic(k, next) ==
    /\ Terminated(k)
    /\ main_pc' = next
    /\ UNCHANGED <<args_time, end_time_arg, now, end_time, pc, wake, list, stdout, current_time,
                   stats, report, end_time_sets, history>>

\* xxx_thread.join().unwrap(): blocks until the thread is over, panics when
\* the thread panicked
Join(k, next) ==
    /\ JoinReady(k)
    /\ main_pc' = IF pc[k] = "panicked" THEN "exit_fail" ELSE next
    /\ UNCHANGED <<args_time, end_time_arg, now, end_time, pc, wake, list, stdout, current_time, stats,
                   report, end_time_sets, history>>

JoinCpu == main_pc = "join_cpu" /\ Join("cpu", "join_mem")
JoinMem == main_pc = "join_mem" /\ Join("mem", "aggregate")

\* the memory average left in KB
mem_average_in_kb(mem_data) == FDiv(Sum(mem_data), Len(mem_data))

\* cpu_sum / cpu_data.len() as f64
cpu_average(cpu_data) == FDiv(Sum(cpu_data), Len(cpu_data))
\* *cpu_data.iter().max_by(total_cmp).unwrap_or(&0.0)
cpu_max(cpu_data) == UnwrapOr(MaxBy(cpu_data), F(0))
\* mem_sum / (mem_data.len() as f64 * 1024.0)
mem_average(mem_data) == FDiv(Sum(mem_data), Len(mem_data) * KbPerMb)
\* mem_data.iter().max_by(total_cmp).unwrap_or(&0.0) / 1024.0
mem_max(mem_data) == FDiv(UnwrapOr(MaxBy(mem_data), F(0)), KbPerMb)

\* a timestamp remembered from the start of the run
start_timestamp == end_time - duration

\* get_current_time(): Local::now() formatted to the second; the text is
\* identified with the second it names
get_current_time == now

\* lines 152-170: the timestamp, the two locks, the four statistics
Aggregate ==
    /\ main_pc = "aggregate"
    /\ current_time' = get_current_time
    /\ stats' = [k \in Kinds |->
                   IF k = "cpu"
                   THEN [average |-> cpu_average(cpu_list), max |-> cpu_max(cpu_list)]
                   ELSE [average |-> mem_average(mem_list), max |-> mem_max(mem_list)]]
    /\ main_pc' = "save_cpu"
    /\ UNCHANGED <<args_time, end_time_arg, now, end_time, pc, wake, list, stdout, report, end_time_sets,
                   history>>

\* one workbook: a row per sample, then the Max and the Average row, saved
\* under the name made of current_time (f64::to_string is one-to-one, a cell
\* is identified with the value it prints); save() may fail, and its unwrap
\* then panics
Save(k, next) ==
    \E ok \in BOOLEAN :
        /\ report' = IF ok
                     THEN [report EXCEPT ![k] =
                             [saved |-> TRUE, name |-> current_time, rows |-> list[k],
                              max |-> stats[k].max, average |-> stats[k].average]]
                     ELSE report
        /\ main_pc' = IF ok THEN next ELSE "exit_fail"
        /\ UNCHANGED <<args_time, end_time_arg, now, end_time, pc, wake, list, stdout, current_time, stats,
                       end_time_sets, history>>

SaveCpu == main_pc = "save_cpu" /\ Save("cpu", "save_mem")
SaveMem == main_pc = "save_mem" /\ Save("mem", "exit_ok")

\* ---------------------------------------------------------- sampler threads
\* while now().as_secs() <= end_time
LoopConditionInclusive(k) == now <= end_time_arg[k]

\* while now().as_secs() < end_time
LoopCondition(k) == now < end_time_arg[k]

\* the while condition, and when it holds the call of run_adb_command:
\* Command::output() fails (expect panics the thread) or the command runs
\* for some seconds; the previous iteration's String was dropped at the end
\* of the loop body
LoopCheck(k) ==
    /\ ProcessAlive
    /\ pc[k] = "loop"
    /\ now >= wake[k]
    /\ IF LoopCondition(k)
       THEN /\ invocations' = [invocations EXCEPT ![k] = @ + 1]
            /\ invoked_at' = [invoked_at EXCEPT ![k] = now]
            /\ \/ /\ pc' = [pc EXCEPT ![k] = "panicked"]
                  /\ failed' = failed \cup {k}
                  /\ failed_at' = IF failed = {} THEN now ELSE failed_at
                  /\ UNCHANGED <<wake, last_dur>>
               \/ \E d \in {0, MaxCmdDur} :
                     /\ pc' = [pc EXCEPT ![k] = "command"]
                     /\ wake' = [wake EXCEPT ![k] = now + d]
                     /\ last_dur' = [last_dur EXCEPT ![k] = d]
                     /\ UNCHANGED <<failed, failed_at>>
       ELSE /\ pc' = [pc EXCEPT ![k] = "remove"]
            /\ UNCHANGED <<wake, invocations, invoked_at, last_dur, failed, failed_at>>
    /\ stdout' = [stdout EXCEPT ![k] = <<>>]
    /\ UNCHANGED <<args_time, end_time_arg, now, list, appended, removals, main_vars>>

\* Vec::insert(0, x) in place of push(x)
PushFront(v, xs) == xs \o v

\* Vec::push, once per value, in order
Push(v, xs) == v \o xs

\* an iteration that pushes its values into both Vecs
CommandReturnIntoBothLists(k) ==
    /\ ProcessAlive
    /\ pc[k] = "command"
    /\ now >= wake[k]
    /\ \E out \in Outputs(k, Len(list[k])) :
          /\ stdout' = [stdout EXCEPT ![k] = out]
          /\ list' = [j \in Kinds |-> Push(list[j], Pushed(k, out))]
          /\ appended' = [appended EXCEPT ![k] = @ \o Pushed(k, out)]
    /\ pc' = [pc EXCEPT ![k] = "loop"]
    /\ wake' = [wake EXCEPT ![k] = now + SleepSecs(k)]
    /\ UNCHANGED <<args_time, end_time_arg, now, invocations, removals, last_dur,
                   invoked_at, failed, failed_at, main_vars>>

\* an iteration that sleeps only after it pushed a value
CommandReturnSleepingAfterPush(k) ==
    /\ ProcessAlive
    /\ pc[k] = "command"
    /\ now >= wake[k]
    /\ \E out \in Outputs(k, Len(list[k])) :
          /\ stdout' = [stdout EXCEPT ![k] = out]
          /\ list' = [list EXCEPT ![k] = Push(@, Pushed(k, out))]
          /\ appended' = [appended EXCEPT ![k] = @ \o Pushed(k, out)]
          /\ wake' = [wake EXCEPT ![k] =
                         IF Pushed(k, out) = <<>> THEN now ELSE now + SleepSecs(k)]
    /\ pc' = [pc EXCEPT ![k] = "loop"]
    /\ UNCHANGED <<args_time, end_time_arg, now, invocations, removals, last_dur,
                   invoked_at, failed, failed_at, main_vars>>

\* a command that never returns
CommandHangs(k) == FALSE /\ UNCHANGED vars

\* the command's stdout arrives: the parsed values are pushed and the thread
\* goes to sleep
CommandReturn(k) ==
    /\ ProcessAlive
    /\ pc[k] = "command"
    /\ now >= wake[k]
    /\ \E out \in Outputs(k, Len(list[k])) :
          /\ stdout' = [stdout EXCEPT ![k] = out]
          /\ list' = [list EXCEPT ![k] = Push(@, Pushed(k, out))]
          /\ appended' = [appended EXCEPT ![k] = @ \o Pushed(k, out)]
    /\ pc' = [pc EXCEPT ![k] = "loop"]
    /\ wake' = [wake EXCEPT ![k] = now + SleepSecs(k)]
    /\ UNCHANGED <<args_time, end_time_arg, now, invocations, removals, last_dur,
                   invoked_at, failed, failed_at, main_vars>>

\* Vec::pop() in place of remove(0)
RemoveLast(v) == SubSeq(v, 1, Len(v) - 1)

\* Vec::remove(0): panics on an empty Vec, else drops the first element
RemoveFirst(v) == Tail(v)

\* list.lock().unwrap().remove(0)
Remove(k) ==
    /\ ProcessAlive
    /\ pc[k] = "remove"
    /\ IF list[k] = <<>>
       THEN /\ pc' = [pc EXCEPT ![k] = "panicked"]
            /\ UNCHANGED <<list, removals>>
       ELSE /\ list' = [list EXCEPT ![k] = RemoveFirst(@)]
            /\ removals' = [removals EXCEPT ![k] = @ + 1]
            /\ pc' = [pc EXCEPT ![k] = "finished"]
    /\ UNCHANGED <<args_time, end_time_arg, now, wake, stdout, appended, invocations,
                   last_dur, invoked_at, failed, failed_at, main_vars>>

get_cpu_data == LoopCheck("cpu") \/ CommandReturn("cpu") \/ Remove("cpu")
get_mem_data == LoopCheck("mem") \/ CommandReturn("mem") \/ Remove("mem")

\* ------------------------------------------------------------------ clock
\* thread k is waiting for the clock: in a command or asleep
Waiting(k) == pc[k] \in {"loop", "command"} /\ wake[k] > now

\* a second passes while main is blocked in a join and every sampler is
\* waiting or over
Elapse ==
    /\ ProcessAlive
    /\ \/ main_pc = "join_cpu" /\ ~Terminated("cpu")
       \/ main_pc = "join_mem" /\ ~Terminated("mem")
    /\ \A k \in Kinds : Waiting(k) \/ Terminated(k)
    /\ now' = now + 1
    /\ UNCHANGED <<args_time, end_time_arg, pc, wake, list, stdout, main_vars, history>>

\* the clock as far as it is followed
Tick == now < MaxClock /\ Elapse

Next ==
    \/ ComputeEndTime
    \/ SpawnCpu
    \/ SpawnMem
    \/ JoinCpu
    \/ JoinMem
    \/ Aggregate
    \/ SaveCpu
    \/ SaveMem
    \/ get_cpu_data
    \/ get_mem_data
    \/ Tick

Spec == Init /\ [][Next]_vars

\* ------------------------------------------------- runs followed to the end
\* a run with --time given
TimedInit == Init /\ args_time.some

\* the clock is followed without limit: a second passes only while a thread
\* waits for an instant still to come, so the clock stops by itself
TimedNext ==
    \/ ComputeEndTime
    \/ SpawnCpu
    \/ SpawnMem
    \/ JoinCpu
    \/ JoinMem
    \/ Aggregate
    \/ SaveCpu
    \/ SaveMem
    \/ get_cpu_data
    \/ get_mem_data
    \/ Elapse

\* every thread that can take a step is scheduled, every command returns
\* and time passes
SpecFair == TimedInit /\ [][TimedNext]_vars /\ WF_vars(TimedNext)

\* ------------------------------------------- the aggregation on its own
\* the non-empty sequences of at most n values of vals
SeriesOf(vals, n) == UNION {[1..m -> vals] : m \in 1..n}
\* percentages top reports, and PSS sizes in KB meminfo reports
CpuSamples == {F(10), F(20), F(30)}
MemSamples == {F(2048), F(4096)}

\* main after both joins returned Ok: each sampler pushed one anomalous
\* first value, then the Series, and removed the first value
AfterJoins ==
    /\ args_time = [some |-> TRUE, val |-> MemSleepSecs * MaxSeriesLen]
    /\ end_time = MemSleepSecs * MaxSeriesLen
    /\ now = MemSleepSecs * (MaxSeriesLen + 1)
    /\ end_time_arg = [k \in Kinds |-> end_time]
    /\ main_pc = "aggregate"
    /\ pc = [k \in Kinds |-> "finished"]
    /\ wake = [k \in Kinds |-> now]
    /\ list \in [Kinds -> SeriesOf(CpuSamples \cup MemSamples, MaxSeriesLen)]
    /\ list["cpu"] \in SeriesOf(CpuSamples, MaxSeriesLen)
    /\ list["mem"] \in SeriesOf(MemSamples, MaxSeriesLen)
    /\ stdout = [k \in Kinds |-> <<>>]
    /\ current_time = 0
    /\ stats = [k \in Kinds |-> NoStats]
    /\ report = [k \in Kinds |-> NoReport]
    /\ appended = [k \in Kinds |-> <<F(0)>> \o list[k]]
    /\ invocations = [k \in Kinds |-> Len(list[k]) + 1]
    /\ removals = [k \in Kinds |-> 1]
    /\ last_dur = [k \in Kinds |-> 0]
    /\ invoked_at = [k \in Kinds |-> 0]
    /\ failed = {}
    /\ failed_at = -1
    /\ end_time_sets = 1

AggregateNext == Aggregate \/ SaveCpu \/ SaveMem

SpecAggregate == AfterJoins /\ [][AggregateNext]_vars

\* ================================================================ claims
\* the poll interval P the specification gives each sampler
PollInterval(k) == IF k = "cpu" THEN CpuSleepSecs ELSE MemSleepSecs
\* the requested duration D: --time, or 60 when it is absent
Requested == IF args_time.some THEN args_time.val ELSE DefaultDuration
CeilDiv(a, b) == (a + b - 1) \div b
Started == main_pc /= "start"

\* C1: when a sampler's loop ends with an empty Series, the removal of the
\* first sample is a no-op: the Series stays empty and the sampler finishes
\* instead of crashing.
C1_TrimOfEmptyIsNoOp ==
    [][\A k \in Kinds :
         (pc[k] = "remove" /\ list[k] = <<>> /\ pc'[k] /= pc[k])
             => (pc'[k] = "finished" /\ list'[k] = <<>>)]_vars

\* C2 as stated: for D >= 1 each sampler appends at most ceil(D/P)+1 samples.
C2_SamplesBounded ==
    \A k \in Kinds :
        (Started /\ Requested >= 1)
            => Len(appended[k]) <= CeilDiv(Requested, PollInterval(k)) + 1

\* C2 amended: for D >= 1 each sampler invokes its command at most
\* ceil(D/P)+1 times, and the CPU sampler, which pushes at most one sample
\* per invocation, appends at most ceil(D/P)+1 samples.
C2_InvocationsBounded ==
    (Started /\ Requested >= 1) =>
        /\ \A k \in Kinds :
               invocations[k] <= CeilDiv(Requested, PollInterval(k)) + 1
        /\ Len(appended["cpu"]) <= invocations["cpu"]

\* a memory sampler that ran its full window and pushed more samples than
\* ceil(D/P)+1 out of ceil(D/P) invocations
C2_Witness ==
    /\ Requested >= 1
    /\ pc["mem"] = "finished"
    /\ invocations["mem"] = CeilDiv(Requested, PollInterval("mem"))
    /\ Len(appended["mem"]) > CeilDiv(Requested, PollInterval("mem")) + 1
    /\ invocations["cpu"] = CeilDiv(Requested, PollInterval("cpu"))

\* C3 as stated: for D >= 1 a sampler leaves its loop no later than P
\* seconds after the deadline.
C3_LeavesWithinInterval ==
    \A k \in Kinds :
        (Requested >= 1 /\ pc[k] = "remove") => now <= end_time + PollInterval(k)

\* C3 amended: for D >= 1 a sampler leaves its loop less than P seconds plus
\* the duration of its last command after the deadline.
C3_LeavesWithinIntervalAndCommand ==
    \A k \in Kinds :
        (Requested >= 1 /\ pc[k] = "remove")
            => now < end_time + PollInterval(k) + last_dur[k]

\* a sampler leaving its loop more than P seconds after the deadline, its
\* last command having taken MaxCmdDur seconds
C3_Witness ==
    \E k \in Kinds :
        /\ Requested >= 1
        /\ pc[k] = "remove"
        /\ last_dur[k] = MaxCmdDur
        /\ now > end_time + PollInterval(k)

\* C4: a failed command invocation aborts the run at once: from the second
\* after the failure on, no sampler invokes a command or appends a sample.
C4_FailureStopsBothSamplers ==
    [][(failed /= {} /\ now > failed_at)
          => (invocations' = invocations /\ appended' = appended)]_vars

\* C5: once a command invocation has failed no report is ever saved, main
\* never gets to the aggregation, and the process does not end in success.
C5_FailureMeansNoReport ==
    failed /= {} =>
        /\ \A k \in Kinds : ~report[k].saved
        /\ main_pc \notin {"aggregate", "save_cpu", "save_mem", "exit_ok"}

\* the process ended in failure after the memory command failed while the
\* CPU sampler finished its window
C5_Witness ==
    /\ failed = {"mem"}
    /\ pc["cpu"] = "finished"
    /\ main_pc = "exit_fail"

\* C6: end_time is assigned once, to the start time plus the requested
\* duration (60 without --time), while no sampler is spawned; it never
\* changes afterwards, and each sampler is handed that same value.
C6_DeadlineComputedOnce ==
    /\ [](/\ end_time_sets <= 1
          /\ (end_time_sets = 0 => \A k \in Kinds : pc[k] = "unspawned")
          /\ \A k \in Kinds : pc[k] /= "unspawned" => end_time_arg[k] = end_time)
    /\ [][/\ end_time_sets' /= end_time_sets => end_time' = now + Requested
          /\ end_time_sets = 1 => end_time' = end_time
          /\ \A k \in Kinds :
                pc[k] /= "unspawned" => end_time_arg'[k] = end_time_arg[k]]_vars

\* no --time was given: both samplers run against the deadline start + 60
C6_Witness ==
    /\ ~args_time.some
    /\ end_time_sets = 1
    /\ \A k \in Kinds : pc[k] = "command" /\ end_time_arg[k] = end_time
    /\ end_time >= DefaultDuration
    /\ now > 0

\* main holds or has held the guards of both Vecs
MainReads == main_pc \in {"aggregate", "save_cpu", "save_mem", "exit_ok"}

\* C7: main reads the Series only when both samplers have finished, and from
\* then on no Series changes.
C7_ReadOnlyAfterJoin ==
    /\ [](MainReads => \A k \in Kinds : pc[k] = "finished")
    /\ [][MainReads => list' = list]_vars

\* main is writing the second workbook from Series both samplers have filled
C7_Witness ==
    /\ main_pc = "save_mem"
    /\ \A k \in Kinds : Len(appended[k]) >= 2

\* C8: a finished sampler has removed exactly once, from a Series of N >= 1
\* samples, and what is left are samples 2..N in their order; before the
\* removal the Series holds every sample pushed.
C8_TrimRemovesFirst ==
    \A k \in Kinds :
        /\ removals[k] <= 1
        /\ (pc[k] = "finished") = (removals[k] = 1)
        /\ removals[k] = 0 => list[k] = appended[k]
        /\ removals[k] = 1 =>
              /\ Len(appended[k]) >= 1
              /\ Len(list[k]) = Len(appended[k]) - 1
              /\ \A i \in 1..Len(list[k]) : list[k][i] = appended[k][i + 1]

\* the memory Series trimmed after one invocation pushed three samples, its
\* second and third differing
C8_Witness ==
    /\ pc["mem"] = "finished"
    /\ invocations["mem"] = 1
    /\ Len(appended["mem"]) = 3
    /\ list["mem"][1] /= list["mem"][2]

\* C9: every sample ever appended to a Series is a number >= 0.
C9_SamplesNonNegative ==
    \A k \in Kinds : \A i \in 1..Len(appended[k]) : FGe(appended[k][i], F(0))

\* C10: in every saved report Max >= Average, and Max = Average when the
\* report has exactly one sample row.
C10_MaxAtLeastAverage ==
    \A k \in Kinds :
        report[k].saved =>
            /\ FGe(report[k].max, report[k].average)
            /\ Len(report[k].rows) = 1 => FEq(report[k].max, report[k].average)

\* the scalar a times n, and the exact sum of a Series of numbers
Times(a, n) == [nan |-> a.nan, num |-> a.num * n, den |-> a.den]
RECURSIVE Total(_, _)
Total(s, i) == IF i = 0 THEN 0 ELSE s[i].num + Total(s, i - 1)
Computed == main_pc \in {"save_cpu", "save_mem", "exit_ok"}

\* C11: for a finished non-empty Series the CPU mean times the count is the
\* sum of the samples and the CPU max is a sample no sample exceeds; the
\* memory mean and max are those values divided by 1024; [10, 20, 30] gives
\* 20 and 30, and [2048, 4096] KB gives 3 and 4.
C11_MeanAndMax ==
    Computed =>
        /\ FEq(Times(stats["cpu"].average, Len(cpu_list)), F(Total(cpu_list, Len(cpu_list))))
        /\ \E i \in 1..Len(cpu_list) : stats["cpu"].max = cpu_list[i]
        /\ \A i \in 1..Len(cpu_list) : FGe(stats["cpu"].max, cpu_list[i])
        /\ FEq(Times(stats["mem"].average, Len(mem_list) * 1024),
               F(Total(mem_list, Len(mem_list))))
        /\ \E i \in 1..Len(mem_list) : FEq(Times(stats["mem"].max, 1024), mem_list[i])
        /\ \A i \in 1..Len(mem_list) : FGe(Times(stats["mem"].max, 1024), mem_list[i])
        /\ cpu_list = <<F(10), F(20), F(30)>>
              => (stats["cpu"].average = F(20) /\ stats["cpu"].max = F(30))
        /\ mem_list = <<F(2048), F(4096)>>
              => (stats["mem"].average = F(3) /\ stats["mem"].max = F(4))

\* both examples of the specification, aggregated
C11_Witness ==
    /\ Computed
    /\ cpu_list = <<F(10), F(20), F(30)>>
    /\ mem_list = <<F(2048), F(4096)>>
    /\ stats["cpu"] = [average |-> F(20), max |-> F(30)]
    /\ stats["mem"] = [average |-> F(3), max |-> F(4)]

\* C12 (as stated): both report files carry the time at which the run
\* started, the time the deadline was computed from.
C12_NamedWithStartTimestamp ==
    \A k \in Kinds : report[k].saved => report[k].name = end_time - duration

\* C12 (amended): both report files carry one timestamp, read once after
\* both samplers were joined; it is not earlier than the deadline, so for a
\* run of at least one second it is later than the start of the run.
C12_NamedWithTimeAfterJoins ==
    /\ \A k \in Kinds :
          report[k].saved =>
              /\ report[k].name = current_time
              /\ report[k].name >= end_time
              /\ \A j \in Kinds : Terminated(j)
    /\ (report["cpu"].saved /\ report["mem"].saved)
          => report["cpu"].name = report["mem"].name

\* both files saved, named later than the deadline
C12_Witness ==
    /\ report["cpu"].saved /\ report["mem"].saved
    /\ duration >= 1
    /\ report["mem"].name > end_time

\* C13: whenever main reaches the aggregation, both the CPU Series and the
\* memory Series hold at least one sample after the trimming.
C13_AggregatedSeriesNonEmpty ==
    main_pc \in {"aggregate", "save_cpu", "save_mem", "exit_ok"}
        => \A k \in Kinds : list[k] /= <<>>

\* the sampler has left its while loop
LeftLoop(k) == pc[k] \in {"remove", "finished", "panicked"}

\* C14: a sampler invokes the command only in a step whose deadline check
\* found now < end_time; a check finding now >= end_time takes the sampler
\* out of the loop, and a sampler out of the loop never invokes again nor
\* returns to the loop.
C14_InvokesOnlyBeforeDeadline ==
    [][\A k \in Kinds :
          /\ invocations'[k] /= invocations[k]
                => (pc[k] = "loop" /\ now < end_time /\ invocations'[k] = invocations[k] + 1)
          /\ (pc[k] = "loop" /\ pc'[k] /= "loop" /\ now >= end_time)
                => (pc'[k] = "remove" /\ invocations'[k] = invocations[k])
          /\ LeftLoop(k) => (LeftLoop(k)' /\ invocations'[k] = invocations[k])
      ]_vars

\* a sampler that invoked twice, found the deadline reached and finished
C14_Witness ==
    \E k \in Kinds :
        pc[k] = "finished" /\ invocations[k] >= 2 /\ now >= end_time

\* C15: the deadline check that follows an iteration is made no earlier
\* than one poll interval after that iteration's command returned, whether
\* or not the iteration appended a sample; so an invocation is never started
\* less than one poll interval after the previous one.
C15_FullSleepEveryIteration ==
    [][\A k \in Kinds :
          (pc[k] = "loop" /\ pc'[k] /= "loop" /\ invocations[k] >= 1)
              => /\ now >= invoked_at[k] + last_dur[k] + PollInterval(k)
                 /\ invocations'[k] /= invocations[k]
                       => invoked_at'[k] >= invoked_at[k] + PollInterval(k)
      ]_vars

\* a second invocation after an iteration that appended nothing
C15_Witness ==
    \E k \in Kinds :
        /\ invocations[k] = 2 /\ appended[k] = <<>>
        /\ invoked_at[k] >= PollInterval(k)

\* the sample due for the first line of a top output: the 9th field without
\* '%' when f64 parsing accepts it, else 0
C16_Sample(line) ==
    LET fields == SplitWhitespace(line)
        field  == IF Len(fields) >= 9
                  THEN SelectSeq(fields[9], LAMBDA c : c /= "%") ELSE <<>>
    IN  IF ParseF64(field).some THEN ParseF64(field).val ELSE F(0)

\* C16: every return of the CPU command takes the sampler back to the loop
\* check; when the output has a first line exactly one sample is appended,
\* the 9th field of that line without '%', or 0 when the field is missing or
\* does not parse; when the output has no line nothing is appended.
C16_CpuParseNeverAborts ==
    [][(pc["cpu"] = "command" /\ pc'["cpu"] /= "command") =>
          /\ pc'["cpu"] = "loop"
          /\ IF Lines(stdout'["cpu"]) = <<>>
             THEN cpu_list' = cpu_list /\ appended'["cpu"] = appended["cpu"]
             ELSE /\ cpu_list' = Append(cpu_list, C16_Sample(Lines(stdout'["cpu"])[1]))
                  /\ appended'["cpu"] =
                        Append(appended["cpu"], C16_Sample(Lines(stdout'["cpu"])[1]))
      ]_vars

\* a row whose 9th field is no number gave the sample 0, and the sampler
\* is back in its loop
C16_Witness ==
    /\ pc["cpu"] = "loop"
    /\ stdout["cpu"] = TopRow(<<"x">>)
    /\ cpu_list /= <<>>
    /\ cpu_list[Len(cpu_list)] = F(0)

\* the sample due for one "TOTAL PSS:" line: the 3rd field when f64 parsing
\* accepts it, else 0
C17_Sample(line) ==
    LET fields == SplitWhitespace(line)
        field  == IF Len(fields) >= 3 THEN fields[3] ELSE <<>>
    IN  IF ParseF64(field).some THEN ParseF64(field).val ELSE F(0)

\* the samples due for the lines of a meminfo output, in line order
RECURSIVE C17_Samples(_)
C17_Samples(ls) ==
    IF ls = <<>> THEN <<>>
    ELSE (IF Contains(Head(ls), Marker) THEN <<C17_Sample(Head(ls))>> ELSE <<>>)
            \o C17_Samples(Tail(ls))

\* C17: every return of the memory command appends one sample per output
\* line containing "TOTAL PSS:", in line order, each the 3rd field of its
\* line, or 0 when the field is missing or does not parse; other lines
\* append nothing.
C17_OneSamplePerPssLine ==
    [][(pc["mem"] = "command" /\ pc'["mem"] /= "command") =>
          /\ pc'["mem"] = "loop"
          /\ mem_list' = mem_list \o C17_Samples(Lines(stdout'["mem"]))
          /\ appended'["mem"] = appended["mem"] \o C17_Samples(Lines(stdout'["mem"]))
      ]_vars

\* one invocation whose output had three marker lines among four appended
\* three samples in line order
C17_Witness ==
    /\ pc["mem"] = "loop"
    /\ invocations["mem"] = 1
    /\ Len(Lines(stdout["mem"])) = 4
    /\ mem_list = <<F(4096), F(0), F(2048)>>

\* the thread that takes the step: every step of a sampler moves that
\* sampler's pc and leaves main_pc alone, every step of main moves main_pc
\* (a spawn also sets the new thread at the head of its loop)
StepOf(k) == pc'[k] /= pc[k] /\ main_pc' = main_pc
StepOfMain == main_pc' /= main_pc

\* C18: no step of the CPU sampler changes mem_list, no step of the memory
\* sampler changes cpu_list, and no step of main changes either of them.
C18_OneWriterPerSeries ==
    [][/\ StepOf("cpu") => mem_list' = mem_list
       /\ StepOf("mem") => cpu_list' = cpu_list
       /\ StepOfMain => list' = list
       /\ list' /= list => (StepOf("cpu") \/ StepOf("mem"))
      ]_vars

\* both samplers have appended and trimmed, and main has read both Series
C18_Witness ==
    /\ \A k \in Kinds : appended[k] /= <<>> /\ removals[k] = 1
    /\ cpu_list /= mem_list
    /\ main_pc = "exit_ok"

\* s is a prefix of t
IsPrefix(s, t) == Len(s) <= Len(t) /\ SubSeq(t, 1, Len(s)) = s

\* C19: while a sampler is in its loop every step leaves its Series as it
\* is or extends it at the end: the Series before the step is a prefix of
\* the Series after it.
C19_AppendOnlyInLoop ==
    [][\A k \in Kinds :
          pc[k] \in {"loop", "command"} => IsPrefix(list[k], list'[k])
      ]_vars

\* a sampler in its loop whose second iteration extended a non-empty Series
\* by a different value
C19_Witness ==
    \E k \in Kinds :
        /\ pc[k] = "loop" /\ invocations[k] = 2
        /\ Len(list[k]) = 2 /\ list[k][1] /= list[k][2]
        /\ list[k] = appended[k]

\* C20: when every command returns and time advances, main gets past both
\* joins (or ends on the first failed one), and each sampler leaves its
\* loop unless the process ended first.
C20_RunEnds ==
    /\ <>(main_pc \in {"aggregate", "save_cpu", "save_mem", "exit_ok", "exit_fail"})
    /\ \A k \in Kinds : <>(LeftLoop(k) \/ ~ProcessAlive)

\* both samplers left their loops on the deadline, the CPU sampler after
\* two invocations, and both joins returned
C20_Witness ==
    /\ main_pc = "aggregate"
    /\ \A k \in Kinds : pc[k] = "finished" /\ invocations[k] >= 1
    /\ invocations["cpu"] >= 2
    /\ now >= end_time

====
